---- MODULE Spec2Model ----
(***************************************************************************)
(* Fix Execution Subsystem of DiagnOStiX: the fix registry                 *)
(* (core/fixes/registry.py), the audit store (core/db.py) and the engine   *)
(* that drives one fix through platform check, detect, run and verify      *)
(* (core/fixes/engine.py).                                                 *)
(*                                                                         *)
(* Python values are modelled as tagged records, texts as sequences of     *)
(* fragments (an f-string is the concatenation of its literal parts and    *)
(* its interpolated values), a dict with optional keys as a record whose   *)
(* domain is the set of keys present.                                      *)
(***************************************************************************)
EXTENDS Integers, Sequences, FiniteSets, TLC

\* platformSystem  platform.system() of the host
\* fixes           FixRegistry._fixes
\* conn            db_instance.conn: "None" until connect() succeeds
\* audit_log       the rows of table fix_audit_log, in insertion order
\* now             the reading of datetime.now()
\* last            the most recent step and, for a call of the engine, what
\*                 the caller and the fix saw of it
VARIABLES platformSystem, fixes, conn, audit_log, now, last, loop

vars == <<platformSystem, fixes, conn, audit_log, now, last, loop>>

----------------------------------------------------------------------------
(* Bounds of the exploration *)

\* the audit table holds at most this many rows in the explored runs
MaxLog == 2
\* readings of the clock: 0..MaxClock
MaxClock == 2
\* pids of the requests: 0..MaxPid
MaxPid == 1

----------------------------------------------------------------------------
(* Python values *)

PyNone == [t |-> "None"]
PyStr(s) == [t |-> "str", v |-> s]
PyDict(body, serializable) == [t |-> "dict", v |-> body, json |-> serializable]

\* SQL column values
NULL == [t |-> "NULL"]
Text(s) == [t |-> "TEXT", v |-> s]

\* text c occurs in the text m (a sequence of fragments)
Contains(m, c) == \E i \in 1..Len(m) : m[i] = c

\* causes carried by the exceptions the fix methods raise
Causes == {"disk full"}
\* payloads run() can return: a JSON-serializable dict and one that json.dumps rejects
OkPayload == PyDict("ok", TRUE)
BadPayload == PyDict("proc", FALSE)

\* platform.system() on the hosts considered
Platforms == {"Windows", "Linux", "Darwin"}
\* platform.node()
Hostname == "host"

----------------------------------------------------------------------------
(* core/fixes/base.py *)

\* FixResult enum values
SUCCESS == "success"
FAILURE == "failure"
SKIPPED == "skipped"

\* an entry of supported_platforms that is not a str (p.lower() raises AttributeError)
NotAStr == "<None>"

\* str.lower() on the platform names that occur
Lower(s) ==
  CASE s = "Windows" -> "windows"
    [] s = "Linux" -> "linux"
    [] s = "Darwin" -> "darwin"
    [] OTHER -> s

\* Fix subclasses that can be registered: id and supported_platforms as set by
\* __init__ (the default list of base.py, a Linux-only fix, and a fix whose
\* list holds a non-string)
FixClasses ==
  { [cls |-> "PortableFix", id |-> "flush_dns",
     supported_platforms |-> <<"windows", "linux", "darwin">>],
    [cls |-> "LinuxOnlyFix", id |-> "linux_only",
     supported_platforms |-> <<"Linux">>],
    [cls |-> "BadPlatformsFix", id |-> "bad_platforms",
     supported_platforms |-> <<NotAStr>>] }

\* Fix.__init__ of a subclass: the instance
NewFix(c) ==
  IF "target_pid" \in DOMAIN c
  THEN [id |-> c.id, cls |-> c.cls, supported_platforms |-> c.supported_platforms,
        target_pid |-> c.target_pid]
  ELSE [id |-> c.id, cls |-> c.cls, supported_platforms |-> c.supported_platforms]

\* Fix.check_platform_compatibility: "true", "false", or "raise" when an entry
\* of supported_platforms has no lower()
check_platform_compatibility(fix, system) ==
  LET current_os == Lower(system)
      sp == fix.supported_platforms
  IN  IF \E i \in 1..Len(sp) : sp[i] = NotAStr THEN "raise"
      ELSE IF \E i \in 1..Len(sp) : Lower(sp[i]) = current_os THEN "true"
      ELSE "false"

\* outcomes of the abstract methods detect, run and verify of a Fix subclass:
\* each returns a value of its declared type or raises
Raise(c) == [k |-> "raise", cause |-> c]
Return(v) == [k |-> "return", v |-> v]
DetectOutcomes(fix) == {Return(TRUE), Return(FALSE)} \cup {Raise(c) : c \in Causes}
RunOutcomes(fix) == {Return(OkPayload), Return(BadPayload)} \cup {Raise(c) : c \in Causes}
VerifyOutcomes(fix) == {Return(TRUE), Return(FALSE)} \cup {Raise(c) : c \in Causes}
\* preview() returns its text or raises (process.py 29-30: p.name() can raise
\* what the except clause does not name)
PreviewOutcomes(fix) == {Return(<<"preview of ", fix.cls>>)} \cup {Raise(c) : c \in Causes}

----------------------------------------------------------------------------
(* core/fixes/implementations: the five fixes the application registers *)

PyInt(n) == [t |-> "int", v |-> n]
\* `not x` is false: x is neither None nor 0
Truthy(x) == x.t = "int" /\ x.v # 0

\* pids a request can carry (routers/fixes.py 62: int(request.params["pid"]))
Pids == 0..MaxPid

\* supported_platforms as base.py 24 sets it; no implementation changes it
DefaultPlatforms == <<"windows", "linux", "darwin">>

\* the classes in the order main.py 24-26 imports their modules (general,
\* network, process), with the attributes their __init__ sets
ImplementationClasses ==
  << [cls |-> "ClearTempFilesFix", id |-> "clear_temp_files",
      supported_platforms |-> DefaultPlatforms],
     [cls |-> "FlushDNSCacheFix", id |-> "flush_dns",
      supported_platforms |-> DefaultPlatforms],
     [cls |-> "ClearApplicationCacheFix", id |-> "clear_pip_cache",
      supported_platforms |-> DefaultPlatforms],
     [cls |-> "RestartNetworkServicesFix", id |-> "restart_network",
      supported_platforms |-> DefaultPlatforms],
     [cls |-> "TerminateRunawayProcessFix", id |-> "terminate_process",
      supported_platforms |-> DefaultPlatforms, target_pid |-> PyNone] >>

IsImplementation(fix) ==
  \E i \in 1..Len(ImplementationClasses) : ImplementationClasses[i].cls = fix.cls

\* TerminateRunawayProcessFix.set_target
set_target(fix, pid) == [fix EXCEPT !.target_pid = PyInt(pid)]

\* exit status of a command run by subprocess.run: zero or not
ExitCodes == {0, 1}

\* texts of the errors the implementations raise
NoTargetError == "No target PID specified."
CommandFailed == "Command failed: "
RestartFailed == "Failed to restart network services: "
FlushNotImplemented == "Flush DNS not implemented for "
\* str(NotImplementedError()) of network.py 61
NoText == ""

\* run() returned: `failed` says that a command it issued for the remediation
\* exited non-zero and nothing made up for it
Ran(v, failed) == [k |-> "return", v |-> v, failed |-> failed]

\* detect() of the implementations: what it returns or raises on the host
ImplDetect(fix, system) ==
  CASE fix.cls = "TerminateRunawayProcessFix" ->
         \* process.py 18-22: psutil.pid_exists of the target says yes or no;
         \* pid 0 is the idle process on Windows and kernel_task on macOS,
         \* and no process on Linux
         IF fix.target_pid = PyNone THEN {Return(FALSE)}
         ELSE IF fix.target_pid.v = 0 /\ system = "Linux" THEN {Return(FALSE)}
         ELSE {Return(TRUE), Return(FALSE)}
    [] fix.cls = "ClearTempFilesFix" ->
         \* general.py 17-31: the size of the temp dir; scandir and stat can
         \* raise an OSError that is no PermissionError
         {Return(TRUE), Return(FALSE)} \cup {Raise(c) : c \in Causes}
    [] OTHER -> {Return(TRUE)}

\* preview() of the implementations
ImplPreview(fix, system) ==
  IF fix.cls = "TerminateRunawayProcessFix"
  THEN IF ~Truthy(fix.target_pid) THEN {Return(<<"No process selected.">>)}
       ELSE \* process.py 28-32: p.name() can raise what the except does not name
            {Return(<<"Will terminate process">>), Return(<<"Process no longer exists">>)}
            \cup {Raise(c) : c \in Causes}
  ELSE {Return(<<"preview of ", fix.cls, " on ", system>>)}

\* network.py 25-61
RestartNetworkRun(system) ==
  IF system = "Windows"
  THEN \* three commands, the exit status only goes into the log text
       {Ran(PyDict("log", TRUE), \E i \in 1..3 : e[i] # 0) : e \in [1..3 -> ExitCodes]}
  ELSE IF system = "Linux"
  THEN \* NetworkManager, then networking if that failed
       UNION { IF e[1] = 0 THEN {Ran(PyDict("restarted", TRUE), FALSE)}
               ELSE IF e[2] = 0 THEN {Ran(PyDict("restarted", TRUE), FALSE)}
               ELSE {Raise(RestartFailed)}
               : e \in [1..2 -> ExitCodes] }
  ELSE {Raise(NoText)}

\* general.py 81-98
FlushDNSRun(system) ==
  IF system \in {"Windows", "Linux"}
  THEN {IF e = 0 THEN Ran(PyDict("stdout", TRUE), FALSE) ELSE Raise(CommandFailed) : e \in ExitCodes}
  ELSE {Raise(FlushNotImplemented)}

\* run() of the implementations
ImplRun(fix, system) ==
  CASE fix.cls = "RestartNetworkServicesFix" -> RestartNetworkRun(system)
    [] fix.cls = "FlushDNSCacheFix" -> FlushDNSRun(system)
    [] fix.cls = "ClearApplicationCacheFix" ->
         \* general.py 124-132: a non-zero exit is fine when the cache was empty
         {Ran(PyDict("stdout", TRUE), FALSE), Ran(PyDict("already empty", TRUE), FALSE)}
         \cup {Raise(c) : c \in Causes}
    [] fix.cls = "ClearTempFilesFix" ->
         \* general.py 36-55: files that cannot be removed are skipped
         {Ran(PyDict("counts", TRUE), FALSE)}
    [] OTHER ->
         \* process.py 34-49
         IF ~Truthy(fix.target_pid) THEN {Raise(NoTargetError)}
         ELSE {Ran(PyDict("terminated", TRUE), FALSE), Ran(PyDict("already gone", TRUE), FALSE)}
              \cup {Raise(c) : c \in Causes}

\* verify() of the implementations
ImplVerify(fix, system) ==
  CASE fix.cls = "TerminateRunawayProcessFix" ->
         \* process.py 51-54
         IF ~Truthy(fix.target_pid) THEN {Return(FALSE)}
         ELSE {Return(TRUE), Return(FALSE)}
    [] fix.cls = "ClearTempFilesFix" -> {Return(TRUE), Return(FALSE)}
    [] OTHER -> {Return(TRUE)}

\* what a lifecycle method of the instance does when the engine calls it on
\* the host: the implementation's code, or any outcome for another subclass
detect(fix, system) ==
  IF IsImplementation(fix) THEN ImplDetect(fix, system) ELSE DetectOutcomes(fix)
preview(fix, system) ==
  IF IsImplementation(fix) THEN ImplPreview(fix, system) ELSE PreviewOutcomes(fix)
run(fix, system) ==
  IF IsImplementation(fix) THEN ImplRun(fix, system) ELSE RunOutcomes(fix)
verify(fix, system) ==
  IF IsImplementation(fix) THEN ImplVerify(fix, system) ELSE VerifyOutcomes(fix)

----------------------------------------------------------------------------
(* core/fixes/registry.py: _fixes is a dict, kept here as the sequence of its
   values in insertion order *)

HasFix(reg, id) == \E i \in 1..Len(reg) : reg[i].id = id

\* FixRegistry.get_fix: the instance, or None
get_fix(reg, id) ==
  IF HasFix(reg, id) THEN reg[CHOOSE i \in 1..Len(reg) : reg[i].id = id] ELSE PyNone

\* a faulty register: the key is deleted and inserted again, so a re-registered
\* id moves to the end
register_MovesToEnd(reg, c) ==
  LET inst == NewFix(c)
  IN  IF HasFix(reg, inst.id)
      THEN Append(SelectSeq(reg, LAMBDA f : f.id # inst.id), inst)
      ELSE Append(reg, inst)

\* a faulty register: an id that is taken keeps the instance it has
register_KeepsFirst(reg, c) ==
  LET inst == NewFix(c)
  IN  IF HasFix(reg, inst.id)
      THEN reg
      ELSE Append(reg, inst)

\* cls._fixes[fix_instance.id] = fix_instance: an existing key keeps its
\* position, a new key goes last
register(reg, c) ==
  LET inst == NewFix(c)
  IN  IF HasFix(reg, inst.id)
      THEN [i \in 1..Len(reg) |-> IF reg[i].id = inst.id THEN inst ELSE reg[i]]
      ELSE Append(reg, inst)

\* FixRegistry.get_all_fixes
get_all_fixes(reg) == reg

----------------------------------------------------------------------------
(* core/db.py *)

\* texts of the exceptions log_execution lets through (neither is a sqlite3.Error)
NoConnError == "'NoneType' object does not support the context manager protocol"
JsonError == "Object is not JSON serializable"

\* json.dumps(x) if isinstance(x, (dict, list)) else str(x); "raise" when
\* json.dumps rejects the dict
Serialize(x) ==
  IF x.t = "dict"
  THEN IF x.json THEN Text(<<"{", x.v, "}">>) ELSE [t |-> "raise"]
  ELSE IF x.t = "None" THEN Text(<<"None">>)
  ELSE Text(x.v)

\* an Optional[str] bound as a query parameter: None is stored as NULL
Param(x) == IF x.t = "None" THEN NULL ELSE Text(x.v)

\* a faulty log_execution: INSERT OR REPLACE under the id of the newest row
log_execution_ReplacesLast(log, c, dbErr, clock, fix_id, hostname, os_name, result, before_state, after_state, error_message) ==
  LET before_json == Serialize(before_state)
      after_json == Serialize(after_state)
      row == [id |-> Len(log) + 1,
              timestamp |-> clock,
              hostname |-> hostname,
              os |-> os_name,
              fix_id |-> fix_id,
              condition_id |-> "manual",
              before_state |-> before_json,
              after_state |-> after_json,
              result |-> result,
              error_message |-> Param(error_message)]
  IN  IF before_json.t = "raise" \/ after_json.t = "raise"
      THEN [exc |-> JsonError, log |-> log]
      ELSE IF c = "None" THEN [exc |-> NoConnError, log |-> log]
      ELSE IF dbErr THEN [exc |-> "none", log |-> log]
      ELSE [exc |-> "none",
            log |-> IF log = <<>> THEN <<row>>
                    ELSE [log EXCEPT ![Len(log)] = [row EXCEPT !.id = Len(log)]]]

\* Database.log_execution on the table `log`: c is self.conn, dbErr says that
\* the INSERT raises sqlite3.Error, clock is datetime.now().
\* Gives the table afterwards and the exception that leaves the method ("none"
\* when it returns).
log_execution(log, c, dbErr, clock, fix_id, hostname, os_name, result, before_state, after_state, error_message) ==
  LET before_json == Serialize(before_state)
      after_json == Serialize(after_state)
      row == [id |-> Len(log) + 1,
              timestamp |-> clock,
              hostname |-> hostname,
              os |-> os_name,
              fix_id |-> fix_id,
              condition_id |-> "manual",
              before_state |-> before_json,
              after_state |-> after_json,
              result |-> result,
              error_message |-> Param(error_message)]
  IN  IF before_json.t = "raise" \/ after_json.t = "raise"
      THEN [exc |-> JsonError, log |-> log]
      ELSE IF c = "None" THEN [exc |-> NoConnError, log |-> log]
      ELSE IF dbErr THEN [exc |-> "none", log |-> log]
      ELSE [exc |-> "none", log |-> Append(log, row)]

\* text of the exception get_history lets through when self.conn is None
NoExecuteError == "'NoneType' object has no attribute 'execute'"

\* ORDER BY timestamp DESC: the orders in which the rows of `log` can come
\* out; rows with the same timestamp come in an order SQL does not define
ByTimestampDesc(log) ==
  { p \in [1..Len(log) -> 1..Len(log)] :
      /\ \A i, j \in 1..Len(log) : i # j => p[i] # p[j]
      /\ \A i, j \in 1..Len(log) :
           i < j => log[p[i]].timestamp >= log[p[j]].timestamp }

\* LIMIT ?: how many of n rows come out; a negative limit is no limit
Limit(limit, n) == IF limit < 0 \/ limit > n THEN n ELSE limit

\* Database.get_history(limit) on the table `log`: c is self.conn, dbErr says
\* that the SELECT raises sqlite3.Error. Gives the ways the call can go: the
\* list returned, or the exception that leaves the method.
get_history(log, c, dbErr, limit) ==
  IF c = "None" THEN {Raise(NoExecuteError)}
  ELSE IF dbErr THEN {Return(<<>>)}
  ELSE {Return([i \in 1..Limit(limit, Len(log)) |-> log[p[i]]]) : p \in ByTimestampDesc(log)}

----------------------------------------------------------------------------
(* core/fixes/engine.py *)

\* the value run_fix hands to its caller: a dict (a record whose domain is the
\* set of keys present), or an exception that leaves run_fix
Raised(type, text, origin) == [raised |-> type, text |-> text, origin |-> origin]
IsDict(ret) == "success" \in DOMAIN ret

\* one invocation of a lifecycle method by the engine, with what it did
Call(m, out) == [m |-> m, out |-> out]

\* what one call of run_fix meets: the connection and the clock of the store,
\* whether the INSERT raises sqlite3.Error, and the host
Store(c, dbErr, clock, system) ==
  [c |-> c, dbErr |-> dbErr, clock |-> clock, system |-> system]

\* db_instance.log_execution(fix_id, hostname, os_name, ...) as run_fix calls it
EngineLog(log, st, fix_id, result, before_state, after_state, error_message) ==
  log_execution(log, st.c, st.dbErr, st.clock, fix_id, Hostname,
                <<st.system, " ", "release">>, result,
                before_state, after_state, error_message)

\* before_state = "Condition detected"
BeforeState == PyStr(<<"Condition detected">>)

\* The stages below give the set of ways the rest of the call can go: a
\* lifecycle method that is invoked does one of the things it can do.

\* a faulty VerifyStage: the call reports success whatever verify() returned
VerifyStage_ReportsSuccess(fix, fix_id, st, log, calls, result_data) ==
  { LET calls2 == Append(calls, Call("verify", v))
        Handler(e, lg) ==
          LET msg == <<"Verification process crashed: ", e>>
              w == EngineLog(lg, st, fix_id, FAILURE, BeforeState, result_data, PyStr(msg))
          IN  IF w.exc # "none"
              THEN [ret |-> Raised("TypeError", w.exc, "log_execution"),
                    calls |-> calls2, log |-> w.log]
              ELSE [ret |-> [success |-> FALSE, message |-> msg],
                    calls |-> calls2, log |-> w.log]
    IN  IF v.k = "raise" THEN Handler(v.cause, log)
        ELSE
          LET is_verified == v.v
              result_status == IF is_verified THEN SUCCESS ELSE FAILURE
              verif_msg == IF is_verified THEN <<"Fix verified successfully.">>
                           ELSE <<"Verification failed after execution.">>
              w == EngineLog(log, st, fix_id, result_status, BeforeState, result_data,
                             IF is_verified THEN PyNone
                             ELSE PyStr(<<"Verification failed">>))
          IN  IF w.exc # "none" THEN Handler(w.exc, w.log)
              ELSE [ret |-> [success |-> TRUE, message |-> verif_msg,
                             details |-> result_data],
                    calls |-> calls2, log |-> w.log]
    : v \in verify(fix, st.system) }

\* a faulty VerifyStage: the message of the result is stored as the error
\* message of the record, also for a success
VerifyStage_MessageOnSuccess(fix, fix_id, st, log, calls, result_data) ==
  { LET calls2 == Append(calls, Call("verify", v))
        Handler(e, lg) ==
          LET msg == <<"Verification process crashed: ", e>>
              w == EngineLog(lg, st, fix_id, FAILURE, BeforeState, result_data, PyStr(msg))
          IN  IF w.exc # "none"
              THEN [ret |-> Raised("TypeError", w.exc, "log_execution"),
                    calls |-> calls2, log |-> w.log]
              ELSE [ret |-> [success |-> FALSE, message |-> msg],
                    calls |-> calls2, log |-> w.log]
    IN  IF v.k = "raise" THEN Handler(v.cause, log)
        ELSE
          LET is_verified == v.v
              result_status == IF is_verified THEN SUCCESS ELSE FAILURE
              verif_msg == IF is_verified THEN <<"Fix verified successfully.">>
                           ELSE <<"Verification failed after execution.">>
              w == EngineLog(log, st, fix_id, result_status, BeforeState, result_data,
                             PyStr(verif_msg))
          IN  IF w.exc # "none" THEN Handler(w.exc, w.log)
              ELSE [ret |-> [success |-> is_verified, message |-> verif_msg,
                             details |-> result_data],
                    calls |-> calls2, log |-> w.log]
    : v \in verify(fix, st.system) }

\* engine.py 64-92: step 4, verify, with its except clause (which also catches
\* what log_execution raises inside the try)
VerifyStage(fix, fix_id, st, log, calls, result_data) ==
  { LET calls2 == Append(calls, Call("verify", v))
        Handler(e, lg) ==
          LET msg == <<"Verification process crashed: ", e>>
              w == EngineLog(lg, st, fix_id, FAILURE, BeforeState, result_data, PyStr(msg))
          IN  IF w.exc # "none"
              THEN [ret |-> Raised("TypeError", w.exc, "log_execution"),
                    calls |-> calls2, log |-> w.log]
              ELSE [ret |-> [success |-> FALSE, message |-> msg],
                    calls |-> calls2, log |-> w.log]
    IN  IF v.k = "raise" THEN Handler(v.cause, log)
        ELSE
          LET is_verified == v.v
              result_status == IF is_verified THEN SUCCESS ELSE FAILURE
              verif_msg == IF is_verified THEN <<"Fix verified successfully.">>
                           ELSE <<"Verification failed after execution.">>
              w == EngineLog(log, st, fix_id, result_status, BeforeState, result_data,
                             IF is_verified THEN PyNone
                             ELSE PyStr(<<"Verification failed">>))
          IN  IF w.exc # "none" THEN Handler(w.exc, w.log)
              ELSE [ret |-> [success |-> is_verified, message |-> verif_msg,
                             details |-> result_data],
                    calls |-> calls2, log |-> w.log]
    : v \in verify(fix, st.system) }

\* a faulty RunStage: the except clause is missing and verify is called after
\* a run() that raised
RunStage_VerifiesAfterError(fix, fix_id, st, log, calls) ==
  UNION { LET calls2 == Append(calls, Call("run", r))
          IN  IF r.k = "raise"
              THEN VerifyStage(fix, fix_id, st, log, calls2, PyNone)
              ELSE VerifyStage(fix, fix_id, st, log, calls2, r.v)
          : r \in run(fix, st.system) }

\* engine.py 48-62: step 3, run, with its except clause
RunStage(fix, fix_id, st, log, calls) ==
  UNION { LET calls2 == Append(calls, Call("run", r))
          IN  IF r.k = "raise"
              THEN LET e == r.cause
                       w == EngineLog(log, st, fix_id, FAILURE, BeforeState, PyNone,
                                      PyStr(<<e>>))
                   IN  IF w.exc # "none"
                       THEN {[ret |-> Raised("TypeError", w.exc, "log_execution"),
                              calls |-> calls2, log |-> w.log]}
                       ELSE {[ret |-> [success |-> FALSE,
                                       message |-> <<"Execution failed: ", e>>],
                              calls |-> calls2, log |-> w.log]}
              ELSE VerifyStage(fix, fix_id, st, log, calls2, r.v)
          : r \in run(fix, st.system) }

\* a faulty DetectStage: the "not needed" skip returns without writing its row
DetectStage_NoSkipLog(fix, fix_id, st, log, calls) ==
  UNION { LET calls2 == Append(calls, Call("detect", d))
              Handler(e, lg) ==
                LET msg == <<"Detection failed: ", e>>
                    w == EngineLog(lg, st, fix_id, FAILURE, PyNone, PyNone, PyStr(msg))
                IN  IF w.exc # "none"
                    THEN {[ret |-> Raised("TypeError", w.exc, "log_execution"),
                           calls |-> calls2, log |-> w.log]}
                    ELSE {[ret |-> [success |-> FALSE, message |-> msg],
                           calls |-> calls2, log |-> w.log]}
          IN  IF d.k = "raise" THEN Handler(d.cause, log)
              ELSE IF ~d.v
              THEN {[ret |-> [success |-> TRUE,
                              message |-> <<"Condition not detected. Fix is not needed.">>,
                              skipped |-> TRUE],
                     calls |-> calls2, log |-> log]}
              ELSE RunStage(fix, fix_id, st, log, calls2)
          : d \in detect(fix, st.system) }

\* engine.py 36-46: step 2, detect, with its except clause (which also catches
\* what log_execution raises inside the try)
DetectStage(fix, fix_id, st, log, calls) ==
  UNION { LET calls2 == Append(calls, Call("detect", d))
              Handler(e, lg) ==
                LET msg == <<"Detection failed: ", e>>
                    w == EngineLog(lg, st, fix_id, FAILURE, PyNone, PyNone, PyStr(msg))
                IN  IF w.exc # "none"
                    THEN {[ret |-> Raised("TypeError", w.exc, "log_execution"),
                           calls |-> calls2, log |-> w.log]}
                    ELSE {[ret |-> [success |-> FALSE, message |-> msg],
                           calls |-> calls2, log |-> w.log]}
          IN  IF d.k = "raise" THEN Handler(d.cause, log)
              ELSE IF ~d.v
              THEN LET msg == <<"Condition not detected. Fix is not needed.">>
                       w == EngineLog(log, st, fix_id, SKIPPED, PyNone, PyNone, PyStr(msg))
                   IN  IF w.exc # "none" THEN Handler(w.exc, w.log)
                       ELSE {[ret |-> [success |-> TRUE, message |-> msg,
                                       skipped |-> TRUE],
                              calls |-> calls2, log |-> w.log]}
              ELSE RunStage(fix, fix_id, st, log, calls2)
          : d \in detect(fix, st.system) }

\* a faulty PlatformStage: the skip is recorded but the return is missing, so
\* the call goes on to detect
PlatformStage_NoStop(fix, fix_id, st, log) ==
  LET compatible == check_platform_compatibility(fix, st.system)
      calls == <<Call("check_platform_compatibility", compatible)>>
  IN  IF compatible = "raise"
      THEN {[ret |-> Raised("AttributeError", "'NoneType' object has no attribute 'lower'",
                            "check_platform_compatibility"),
             calls |-> calls, log |-> log]}
      ELSE IF compatible = "false"
      THEN LET msg == <<"Fix not supported on this platform (", st.system, ").">>
               w == EngineLog(log, st, fix_id, SKIPPED, PyNone, PyNone, PyStr(msg))
           IN  IF w.exc # "none"
               THEN {[ret |-> Raised("TypeError", w.exc, "log_execution"),
                      calls |-> calls, log |-> w.log]}
               ELSE DetectStage(fix, fix_id, st, w.log, calls)
      ELSE DetectStage(fix, fix_id, st, log, calls)

\* engine.py 30-34: step 1, the platform check (outside any try)
PlatformStage(fix, fix_id, st, log) ==
  LET compatible == check_platform_compatibility(fix, st.system)
      calls == <<Call("check_platform_compatibility", compatible)>>
  IN  IF compatible = "raise"
      THEN {[ret |-> Raised("AttributeError", "'NoneType' object has no attribute 'lower'",
                            "check_platform_compatibility"),
             calls |-> calls, log |-> log]}
      ELSE IF compatible = "false"
      THEN LET msg == <<"Fix not supported on this platform (", st.system, ").">>
               w == EngineLog(log, st, fix_id, SKIPPED, PyNone, PyNone, PyStr(msg))
           IN  IF w.exc # "none"
               THEN {[ret |-> Raised("TypeError", w.exc, "log_execution"),
                      calls |-> calls, log |-> w.log]}
               ELSE {[ret |-> [success |-> FALSE, message |-> msg],
                      calls |-> calls, log |-> w.log]}
      ELSE DetectStage(fix, fix_id, st, log, calls)

\* a faulty run_fix: an unknown id is recorded as a failure
run_fix_LogsNotFound(reg, fix_id, st, log) ==
  LET fix == get_fix(reg, fix_id)
      msg == <<"Fix ID '", fix_id, "' not found.">>
  IN  IF fix = PyNone
      THEN {[ret |-> [success |-> FALSE, message |-> msg],
             calls |-> <<>>,
             log |-> EngineLog(log, st, fix_id, FAILURE, PyNone, PyNone, PyStr(msg)).log]}
      ELSE PlatformStage(fix, fix_id, st, log)

\* FixEngine.run_fix: the ways the call can go, each with the value handed to
\* the caller, the lifecycle methods invoked in order and the audit table
\* afterwards
run_fix(reg, fix_id, st, log) ==
  LET fix == get_fix(reg, fix_id)
  IN  IF fix = PyNone
      THEN {[ret |-> [success |-> FALSE,
                      message |-> <<"Fix ID '", fix_id, "' not found.">>],
             calls |-> <<>>, log |-> log]}
      ELSE PlatformStage(fix, fix_id, st, log)

\* engine.py 107-115: the dict get_fix_info builds, in evaluation order:
\* preview() and check_platform_compatibility() are called outside the try
FixInfo(fix, system, is_needed, calls, log) ==
  UNION { LET calls2 == Append(calls, Call("preview", p))
          IN  IF p.k = "raise"
              THEN {[ret |-> Raised("Exception", p.cause, "preview"),
                     calls |-> calls2, log |-> log]}
              ELSE LET compatible == check_platform_compatibility(fix, system)
                       calls3 == Append(calls2, Call("check_platform_compatibility", compatible))
                   IN  IF compatible = "raise"
                       THEN {[ret |-> Raised("AttributeError",
                                             "'NoneType' object has no attribute 'lower'",
                                             "check_platform_compatibility"),
                              calls |-> calls3, log |-> log]}
                       ELSE {[ret |-> [id |-> fix.id, name |-> fix.cls,
                                       description |-> <<"description of ", fix.cls>>,
                                       preview |-> p.v, is_needed |-> is_needed,
                                       supported |-> (compatible = "true"),
                                       risk |-> "Safe"],
                              calls |-> calls3, log |-> log]}
          : p \in preview(fix, system) }

\* a faulty get_fix_info: a failing detect() is recorded in the audit table
get_fix_info_LogsDetectError(reg, fix_id, st, log) ==
  LET fix == get_fix(reg, fix_id)
  IN  IF fix = PyNone
      THEN {[ret |-> PyNone, calls |-> <<>>, log |-> log]}
      ELSE UNION { LET calls == <<Call("detect", d)>>
                       is_needed == IF d.k = "raise" THEN FALSE ELSE d.v
                       w == EngineLog(log, st, fix_id, FAILURE, PyNone, PyNone,
                                      PyStr(<<"Detection failed: ", d.cause>>))
                   IN  FixInfo(fix, st.system, is_needed, calls,
                               IF d.k = "raise" THEN w.log ELSE log)
                   : d \in detect(fix, st.system) }

\* FixEngine.get_fix_info: the ways the call can go, each with the value
\* handed to the caller (None for an unknown id), the methods of the fix it
\* invoked in order and the audit table afterwards
get_fix_info(reg, fix_id, st, log) ==
  LET fix == get_fix(reg, fix_id)
  IN  IF fix = PyNone
      THEN {[ret |-> PyNone, calls |-> <<>>, log |-> log]}
      ELSE UNION { LET calls == <<Call("detect", d)>>
                       is_needed == IF d.k = "raise" THEN FALSE ELSE d.v
                   IN  FixInfo(fix, st.system, is_needed, calls, log)
                   : d \in detect(fix, st.system) }

----------------------------------------------------------------------------
(* The program: module import registers the fixes, the lifespan hook (or the
   verification script) connects the store, requests call the engine *)

\* ids a caller may pass to run_fix
FixIds == {c.id : c \in FixClasses} \cup {"does_not_exist"}

\* `last` is the most recent step and, for a call of the engine, what the
\* caller and the fix saw of it
NoCall == [op |-> "none"]

\* the requests POST /api/fixes/{fix_id}/run the server is handling: main.py
\* 484-485 starts one uvicorn process, whose event loop runs a task for each
NoTask == "none"
Requests == {"a", "b"}

\* a task before its request arrives. pid is the "pid" of request.params
\* (PyNone: the key is absent), found is the target the handler met, acted_on
\* the target the lifecycle methods read, rows what its INSERT added
IdleTask == [pc |-> "idle", pid |-> PyNone, found |-> PyNone, acted_on |-> PyNone, rows |-> <<>>]

\* `loop` is the event loop: its tasks, the task that holds it, the rows the
\* shared connection (db.py 30) has pending in its open transaction with the
\* task that inserted each, and the pid of the most recent set_target call
NoRequests == [tasks |-> [r \in Requests |-> IdleTask], running |-> NoTask, txn |-> <<>>, last_set |-> PyNone]

Init ==
  /\ platformSystem \in Platforms
  /\ fixes = <<>>
  /\ conn = "None"
  /\ audit_log = <<>>
  /\ now = 0
  /\ last = NoCall
  /\ loop = NoRequests

\* FixRegistry.register(fix_cls), as the implementation modules do on import
Register(c) ==
  /\ fixes' = register(fixes, c)
  /\ last' = [op |-> "register", fix_cls |-> c, fixes0 |-> fixes]
  /\ UNCHANGED <<platformSystem, conn, audit_log, now, loop>>

\* FixRegistry.clear()
Clear ==
  /\ fixes' = <<>>
  /\ last' = [op |-> "clear"]
  /\ UNCHANGED <<platformSystem, conn, audit_log, now, loop>>

\* Database.connect() succeeds: the connection is set and init_db creates the
\* table if it is absent
ConnectOk ==
  /\ conn' = "open"
  /\ last' = [op |-> "connect"]
  /\ UNCHANGED <<platformSystem, fixes, audit_log, now, loop>>

\* Database.connect() fails: sqlite3.connect raises before self.conn is
\* assigned, and lifespan (main.py 56-61) only logs the error
ConnectFail ==
  /\ conn = "None"
  /\ conn' = conn
  /\ last' = [op |-> "connect"]
  /\ UNCHANGED <<platformSystem, fixes, audit_log, now, loop>>

\* a faulty WriteClock: the timestamp is the reading taken when the call began
WriteClock_AtStart(start, d) == start

\* db.py 86: datetime.now() is read when log_execution builds the row, which
\* is after the lifecycle methods of the call, d after the call began
WriteClock(start, d) == start + d

\* one call FixEngine.run_fix(fix_id) whose lifecycle methods take d in all
RunFixTaking(fix_id, d) ==
  /\ Len(audit_log) < MaxLog
  /\ now + d <= MaxClock
  /\ \E dbErr \in (IF conn = "open" THEN BOOLEAN ELSE {FALSE}) :
       LET st == Store(conn, dbErr, WriteClock(now, d), platformSystem)
       IN  \E r \in run_fix(fixes, fix_id, st, audit_log) :
             /\ audit_log' = r.log
             /\ last' = [op |-> "run_fix", fix_id |-> fix_id,
                         fix |-> get_fix(fixes, fix_id), st |-> st,
                         log0 |-> audit_log, ret |-> r.ret, calls |-> r.calls,
                         began |-> now, steps_done |-> now + d]
  /\ now' = now + d
  /\ UNCHANGED <<platformSystem, fixes, conn, loop>>

\* one call FixEngine.run_fix(fix_id), the clock reading the same throughout
RunFix(fix_id) == RunFixTaking(fix_id, 0)

\* one call FixEngine.get_fix_info(fix_id) (routers/fixes.py 28-50)
GetFixInfo(fix_id) ==
  /\ LET st == Store(conn, FALSE, now, platformSystem)
     IN  \E r \in get_fix_info(fixes, fix_id, st, audit_log) :
           /\ audit_log' = r.log
           /\ last' = [op |-> "get_fix_info", fix_id |-> fix_id,
                       fix |-> get_fix(fixes, fix_id), st |-> st,
                       log0 |-> audit_log, ret |-> r.ret, calls |-> r.calls]
  /\ UNCHANGED <<platformSystem, fixes, conn, now, loop>>

\* limits a caller passes to get_history: any int (verify_fix_engine.py 65
\* passes 1; the default of 50, which the router uses, is no less than MaxLog
\* and behaves as MaxLog does)
Limits == (0 - 1) .. MaxLog

\* one call db_instance.get_history(limit)
GetHistory(limit) ==
  /\ \E dbErr \in (IF conn = "open" THEN BOOLEAN ELSE {FALSE}) :
       \E h \in get_history(audit_log, conn, dbErr, limit) :
         last' = [op |-> "get_history", limit |-> limit, c |-> conn, dbErr |-> dbErr,
                  log0 |-> audit_log, ret |-> h]
  /\ UNCHANGED <<platformSystem, fixes, conn, audit_log, now, loop>>

Next ==
  \/ \E c \in FixClasses : Register(c)
  \/ Clear
  \/ ConnectOk
  \/ ConnectFail
  \/ \E id \in FixIds : RunFix(id)

Spec == Init /\ [][Next]_vars

\* the program once db_instance.connect() has succeeded on a fresh database
\* file (verify_fix_engine.py 23-29, main.py 56-59)
InitConnected ==
  /\ platformSystem \in Platforms
  /\ fixes = <<>>
  /\ conn = "open"
  /\ audit_log = <<>>
  /\ now = 0
  /\ last = NoCall
  /\ loop = NoRequests

NextConnected ==
  \/ \E c \in FixClasses : Register(c)
  \/ Clear
  \/ ConnectOk
  \/ \E id \in FixIds : RunFix(id)

SpecConnected == InitConnected /\ [][NextConnected]_vars

\* the service: the router's operations on the engine and the store
\* (routers/fixes.py 28-68), connect() of the lifespan hook, and imports that
\* register fix classes
ServiceClasses == {c \in FixClasses : c.cls \in {"PortableFix", "BadPlatformsFix"}}
ServiceIds == {c.id : c \in ServiceClasses} \cup {"does_not_exist"}

NextService ==
  \/ \E c \in ServiceClasses : Register(c)
  \/ ConnectOk
  \/ ConnectFail
  \/ \E id \in ServiceIds : RunFix(id)
  \/ \E id \in ServiceIds : GetFixInfo(id)
  \/ \E limit \in Limits : GetHistory(limit)

SpecService == Init /\ [][NextService]_vars

\* the history of one fix as the clock advances: the store is connected, the
\* implementation module has registered its fix, requests run it and read
\* the history
PortableFix == CHOOSE c \in FixClasses : c.cls = "PortableFix"

InitHistory ==
  /\ platformSystem \in Platforms
  /\ fixes = <<NewFix(PortableFix)>>
  /\ conn = "open"
  /\ audit_log = <<>>
  /\ now = 0
  /\ last = NoCall
  /\ loop = NoRequests

\* time passes: datetime.now() reads a later value
Tick ==
  /\ now < MaxClock
  /\ now' = now + 1
  /\ last' = [op |-> "tick"]
  /\ UNCHANGED <<platformSystem, fixes, conn, audit_log, loop>>

NextHistory ==
  \/ Tick
  \/ RunFix(PortableFix.id)
  \/ \E limit \in Limits : GetHistory(limit)

SpecHistory == InitHistory /\ [][NextHistory]_vars

\* calls that take time: the clock moves while the lifecycle methods execute
NextClock ==
  \/ Tick
  \/ \E d \in 0..MaxClock : RunFixTaking(PortableFix.id, d)

SpecClock == InitHistory /\ [][NextClock]_vars

\* the registry while modules are imported and imported again: a reloaded
\* module registers another class under the id of a class already there
ReloadedClasses ==
  {[cls |-> "ReloadedFix", id |-> c.id, supported_platforms |-> <<"windows">>] : c \in FixClasses}

NextRegistry ==
  \/ \E c \in FixClasses \cup ReloadedClasses : Register(c)
  \/ Clear

SpecRegistry == Init /\ [][NextRegistry]_vars

\* the application as main.py starts it: importing the implementation
\* modules (main.py 24-26) has registered the five fixes, the lifespan hook
\* has connected the store, and requests run the fixes
InstalledFixes == [i \in 1..Len(ImplementationClasses) |-> NewFix(ImplementationClasses[i])]
InstalledIds == {InstalledFixes[i].id : i \in 1..Len(InstalledFixes)}

InitInstalled ==
  /\ platformSystem \in Platforms
  /\ fixes = InstalledFixes
  /\ conn = "open"
  /\ audit_log = <<>>
  /\ now = 0
  /\ last = NoCall
  /\ loop = NoRequests

NextInstalled ==
  \/ \E id \in InstalledIds : RunFix(id)
  \/ \E id \in InstalledIds : GetFixInfo(id)

SpecInstalled == InitInstalled /\ [][NextInstalled]_vars

\* any fix classes, described and run once the store is connected
NextDescribe ==
  \/ \E c \in FixClasses : Register(c)
  \/ \E id \in FixIds : RunFix(id)
  \/ \E id \in FixIds : GetFixInfo(id)

SpecDescribe == InitConnected /\ [][NextDescribe]_vars

\* the fix the requests below run
TargetFix == "terminate_process"

\* the instance the registry holds is the one object every request uses
\* (registry.py 22-28): a method that assigns an attribute changes it in place
Replace(reg, fix) == [i \in 1..Len(reg) |-> IF reg[i].id = fix.id THEN fix ELSE reg[i]]

\* a faulty handler: a request without "pid" clears the target
RequestTarget_Resets(fix, pid) ==
  IF pid = PyNone THEN [fix EXCEPT !.target_pid = PyNone] ELSE set_target(fix, pid.v)

\* routers/fixes.py 59-64: the handler calls set_target when the request
\* carries a "pid", and leaves the instance alone when it does not
RequestTarget(fix, pid) ==
  IF pid = PyNone THEN fix ELSE set_target(fix, pid.v)

\* a handler a thread of a pool runs: it can be preempted after any statement
Yields_Anywhere(pc) == TRUE

\* where a task gives up the event loop: run_fix of routers/fixes.py 52-68
\* is `async def` and has no await, FixEngine.run_fix and log_execution are
\* plain functions, so a task that got the loop keeps it until it returns
Yields(pc) == pc = "done"

\* tasks on threads of their own: a task steps whoever else is under way
CanRun_Always(r) == TRUE

\* task r may take its next step: no other task holds the loop
CanRun(r) == loop.running \in {NoTask, r}
\* who holds the loop after r has moved to pc
Holder(r, pc) == IF Yields(pc) THEN NoTask ELSE r

\* pids a request body can carry, PyNone for a body without "pid"
RequestPids == {PyNone} \cup {PyInt(p) : p \in Pids}

\* a client sends POST /api/fixes/terminate_process/run: the request of task r
Arrive(r, pid) ==
  /\ loop.tasks[r].pc = "idle"
  /\ loop' = [loop EXCEPT !.tasks[r] = [IdleTask EXCEPT !.pc = "new", !.pid = pid]]
  /\ last' = [op |-> "arrive", r |-> r]
  /\ UNCHANGED <<platformSystem, fixes, conn, audit_log, now>>

\* routers/fixes.py 55-64: the handler of r looks the fix up and sets the target
SetTarget(r) ==
  LET task == loop.tasks[r]
      fix == get_fix(fixes, TargetFix)
  IN  /\ task.pc = "new"
      /\ CanRun(r)
      /\ fixes' = Replace(fixes, RequestTarget(fix, task.pid))
      /\ loop' = [loop EXCEPT !.tasks[r].pc = "target_set",
                              !.tasks[r].found = fix.target_pid,
                              !.running = Holder(r, "target_set"),
                              !.last_set = IF task.pid = PyNone THEN @ ELSE task.pid]
      /\ last' = [op |-> "set_target", r |-> r]
      /\ UNCHANGED <<platformSystem, conn, audit_log, now>>

\* the rows the connection holds: committed, then pending
Inserted == audit_log \o [i \in 1..Len(loop.txn) |-> loop.txn[i].row]

\* routers/fixes.py 67: FixEngine.run_fix(fix_id) up to the INSERT that
\* log_execution executes on the shared connection (db.py 84-85)
EngineCall(r) ==
  LET task == loop.tasks[r]
      fix == get_fix(fixes, TargetFix)
      st == Store(conn, FALSE, now, platformSystem)
  IN  /\ task.pc = "target_set"
      /\ CanRun(r)
      /\ \E e \in run_fix(fixes, TargetFix, st, Inserted) :
           LET rows == SubSeq(e.log, Len(Inserted) + 1, Len(e.log))
           IN  /\ loop' = [loop EXCEPT !.tasks[r].pc = "inserted",
                                       !.tasks[r].acted_on = fix.target_pid,
                                       !.tasks[r].rows = rows,
                                       !.running = Holder(r, "inserted"),
                                       !.txn = @ \o [i \in 1..Len(rows) |-> [owner |-> r, row |-> rows[i]]]]
               /\ last' = [op |-> "run_fix", fix_id |-> TargetFix, fix |-> fix, st |-> st,
                           log0 |-> Inserted, ret |-> e.ret, calls |-> e.calls,
                           began |-> now, steps_done |-> now]
      /\ UNCHANGED <<platformSystem, fixes, conn, audit_log, now>>

\* db.py 84: leaving `with self.conn` commits what the connection has pending,
\* and run_fix returns to the handler, which returns the result (fixes.py 68)
Commit(r) ==
  /\ loop.tasks[r].pc = "inserted"
  /\ CanRun(r)
  /\ audit_log' = Inserted
  /\ loop' = [loop EXCEPT !.tasks[r].pc = "done",
                          !.running = Holder(r, "done"),
                          !.txn = <<>>]
  /\ last' = [op |-> "commit", r |-> r,
              owners |-> {loop.txn[i].owner : i \in 1..Len(loop.txn)}]
  /\ UNCHANGED <<platformSystem, fixes, conn, now>>

\* GET /api/fixes/terminate_process (routers/fixes.py 44-50), between tasks
Describe ==
  /\ loop.running = NoTask
  /\ GetFixInfo(TargetFix)

\* the running application serving requests that terminate a process
NextRequests ==
  \/ \E r \in Requests, pid \in RequestPids : Arrive(r, pid)
  \/ \E r \in Requests : SetTarget(r)
  \/ \E r \in Requests : EngineCall(r)
  \/ \E r \in Requests : Commit(r)
  \/ Describe

SpecRequests == InitInstalled /\ [][NextRequests]_vars

----------------------------------------------------------------------------
(* What the most recent call of run_fix did *)

IsRunFix == last.op = "run_fix"
\* the id was in the registry when the call was made
Registered == last.fix # PyNone
\* the call invoked lifecycle method m
Invoked(m) == \E i \in 1..Len(last.calls) : last.calls[i].m = m
\* what m did when the call invoked it
Outcome(m) == last.calls[CHOOSE i \in 1..Len(last.calls) : last.calls[i].m = m].out
PlatformCheck(b) ==
  Invoked("check_platform_compatibility") /\ Outcome("check_platform_compatibility") = b
Returns(m, v) == Invoked(m) /\ Outcome(m) = Return(v)
Raises(m) == Invoked(m) /\ Outcome(m).k = "raise"
\* the rows the call added to the audit table
NewRows == SubSeq(audit_log, Len(last.log0) + 1, Len(audit_log))
\* the rows that were there before are untouched
OldRowsKept ==
  /\ Len(audit_log) >= Len(last.log0)
  /\ SubSeq(audit_log, 1, Len(last.log0)) = last.log0
\* the call handed a dict to its caller
Returned == IsDict(last.ret)
Skipped(ret) == "skipped" \in DOMAIN ret /\ ret.skipped = TRUE
LifecycleMethods == {"check_platform_compatibility", "detect", "run", "verify"}
\* the store takes the row the call writes: it is connected, the INSERT does
\* not raise, and the payload of run(), if any, is JSON-serializable
StoreAccepts ==
  /\ last.st.c = "open"
  /\ ~last.st.dbErr
  /\ (Invoked("run") /\ Outcome("run").k = "return" => Outcome("run").v.json)

----------------------------------------------------------------------------
(* Audit records per call *)

\* the call ended in one of the stages a platform check that returns leads to
EndedInAStage == IsRunFix /\ Registered /\ ~PlatformCheck("raise")

\* C1 as stated: for a registered id, a call of run_fix that returns from any
\* of the lifecycle stages (platform check false, detect false or raising, run
\* raising, verify false, raising or true) has added exactly one row to the
\* audit table
C1_ExactlyOneRecord ==
  EndedInAStage /\ Returned => Len(audit_log) = Len(last.log0) + 1

\* C1 amended: a call of run_fix for a registered id adds at most one row and
\* leaves the earlier rows alone; it adds exactly one when the platform check
\* returns, the store is connected, the INSERT raises no sqlite3.Error and the
\* payload serializes, and none otherwise
C1_OneRecordIffStoreAccepts ==
  IsRunFix /\ Registered =>
    /\ OldRowsKept
    /\ Len(NewRows) = (IF ~PlatformCheck("raise") /\ StoreAccepts THEN 1 ELSE 0)

\* a second call ends in a crashing verify() and its one row is written
C1_Witness ==
  /\ EndedInAStage
  /\ StoreAccepts
  /\ Raises("verify")
  /\ Len(last.log0) = 1
  /\ Len(NewRows) = 1

\* C2: run_fix with an id that is not in the registry returns the not-found
\* result (success false, a message naming the id), leaves the audit table as
\* it was and invokes no lifecycle method
C2_NotFoundWritesNothing ==
  IsRunFix /\ ~Registered =>
    /\ Returned
    /\ last.ret.success = FALSE
    /\ last.ret.message = <<"Fix ID '", last.fix_id, "' not found.">>
    /\ DOMAIN last.ret = {"success", "message"}
    /\ audit_log = last.log0
    /\ last.calls = <<>>

\* an unknown id is run while other fixes are registered and the history is
\* not empty
C2_Witness ==
  /\ IsRunFix
  /\ ~Registered
  /\ Len(fixes) > 0
  /\ Len(audit_log) > 0

----------------------------------------------------------------------------
(* Failures of the store and of the fix *)

\* the call as it goes when the store is connected and the INSERT succeeds
WithWorkingStore ==
  run_fix(IF Registered THEN <<last.fix>> ELSE <<>>, last.fix_id,
          Store("open", FALSE, last.st.clock, last.st.system), last.log0)

\* C3: whatever the store does, run_fix hands its caller the value it hands
\* over with a working store when the fix methods do the same, and no
\* exception of log_execution reaches the caller
C3_StoreFailureKeepsResult ==
  IsRunFix =>
    /\ \E r \in WithWorkingStore : r.calls = last.calls /\ r.ret = last.ret
    /\ (Returned \/ last.ret.origin # "log_execution")

\* C4: no exception raised by check_platform_compatibility, detect, run or
\* verify leaves run_fix
C4_NoFixExceptionEscapes ==
  IsRunFix /\ Registered => (Returned \/ last.ret.origin \notin LifecycleMethods)

\* C5: when check_platform_compatibility() returns false, the call invokes
\* neither detect nor run nor verify
C5_UnsupportedPlatformStops ==
  IsRunFix /\ PlatformCheck("false") =>
    ~Invoked("detect") /\ ~Invoked("run") /\ ~Invoked("verify")

\* a Linux-only fix is run on another host and the skip is recorded
C5_Witness ==
  /\ IsRunFix
  /\ PlatformCheck("false")
  /\ Lower(platformSystem) # "linux"
  /\ Len(NewRows) = 1

----------------------------------------------------------------------------
(* The stages of the lifecycle: what is returned and what is recorded *)

\* every row the call wrote satisfies P
AllNewRows(P(_)) == \A i \in 1..Len(NewRows) : P(NewRows[i])
IsText(x) == x.t = "TEXT"

\* C6: when the platform check is false, run_fix returns success=false with
\* skipped=true and the row it writes has result "skipped"
C6_UnsupportedPlatformFlagged ==
  IsRunFix /\ PlatformCheck("false") =>
    /\ Returned
    /\ last.ret.success = FALSE
    /\ Skipped(last.ret)
    /\ AllNewRows(LAMBDA row : row.result = SKIPPED)

\* C7: when detect() returns false, run and verify are not invoked, run_fix
\* returns success=true with skipped=true, and the row it writes has result
\* "skipped" and the message that the condition was not detected
C7_NotDetectedSkips ==
  IsRunFix /\ Returns("detect", FALSE) =>
    /\ ~Invoked("run") /\ ~Invoked("verify")
    /\ Returned
    /\ last.ret.success = TRUE
    /\ Skipped(last.ret)
    /\ AllNewRows(LAMBDA row :
         /\ row.result = SKIPPED
         /\ row.error_message = Text(<<"Condition not detected. Fix is not needed.">>))

\* C8: when detect() raises with cause c, run and verify are not invoked,
\* run_fix returns success=false with a message carrying c, and the row it
\* writes has result "failure" and an error message carrying c
C8_DetectionErrorReported ==
  IsRunFix /\ Raises("detect") =>
    LET c == Outcome("detect").cause
    IN  /\ ~Invoked("run") /\ ~Invoked("verify")
        /\ Returned
        /\ last.ret.success = FALSE
        /\ Contains(last.ret.message, c)
        /\ AllNewRows(LAMBDA row :
             /\ row.result = FAILURE
             /\ IsText(row.error_message)
             /\ Contains(row.error_message.v, c))

\* C9: when run() raises, verify is not invoked and the row the call writes
\* holds no value in after_state
C9_RunErrorLeavesAfterStateAbsent ==
  IsRunFix /\ Raises("run") =>
    /\ ~Invoked("verify")
    /\ AllNewRows(LAMBDA row : row.after_state = NULL)

\* C10: when run() raises with cause c, run_fix returns success=false with a
\* message containing c, and the row it writes has result "failure", an error
\* message containing c and the "Condition detected" before-state
C10_RunErrorReported ==
  IsRunFix /\ Raises("run") =>
    LET c == Outcome("run").cause
    IN  /\ Returned
        /\ last.ret.success = FALSE
        /\ Contains(last.ret.message, c)
        /\ AllNewRows(LAMBDA row :
             /\ row.result = FAILURE
             /\ IsText(row.error_message)
             /\ Contains(row.error_message.v, c)
             /\ row.before_state = Text(<<"Condition detected">>))

----------------------------------------------------------------------------
(* The verification stage *)

\* run() returned a payload in the call
RunReturned == Invoked("run") /\ Outcome("run").k = "return"

\* C11: when run() returns a payload and verify() returns false, run_fix
\* returns success=false and the row it writes has result "failure", the
\* "Condition detected" before-state, the payload as after-state and the error
\* message "Verification failed"
C11_VerifyFalseRecorded ==
  IsRunFix /\ RunReturned /\ Returns("verify", FALSE) =>
    /\ Returned
    /\ last.ret.success = FALSE
    /\ AllNewRows(LAMBDA row :
         /\ row.result = FAILURE
         /\ row.before_state = Text(<<"Condition detected">>)
         /\ row.after_state = Serialize(Outcome("run").v)
         /\ row.error_message = Text(<<"Verification failed">>))

\* C12: when run() returns a payload and verify() raises with cause c, run_fix
\* returns success=false and has written exactly one row, with result
\* "failure", the "Condition detected" before-state, the payload as
\* after-state and an error message carrying c
C12_VerifyCrashRecorded ==
  IsRunFix /\ RunReturned /\ Raises("verify") =>
    LET c == Outcome("verify").cause
    IN  /\ Returned
        /\ last.ret.success = FALSE
        /\ Len(NewRows) = 1
        /\ AllNewRows(LAMBDA row :
             /\ row.result = FAILURE
             /\ row.before_state = Text(<<"Condition detected">>)
             /\ row.after_state = Serialize(Outcome("run").v)
             /\ IsText(row.error_message)
             /\ Contains(row.error_message.v, c))

\* the call went through detect, run and verify without a failure
IsSuccessRun ==
  /\ IsRunFix /\ Registered
  /\ Returns("detect", TRUE) /\ RunReturned /\ Returns("verify", TRUE)

\* C13: for a registered fix whose detect() returns true, run() returns p and
\* verify() returns true, run_fix returns success=true, not skipped, with
\* details=p, and get_history(1) then returns a list whose first record has
\* the id that was run and result "success"
C13_SuccessReturnedAndNewest ==
  IsSuccessRun =>
    /\ Returned
    /\ last.ret.success = TRUE
    /\ ~Skipped(last.ret)
    /\ "details" \in DOMAIN last.ret /\ last.ret.details = Outcome("run").v
    /\ \A h \in get_history(audit_log, conn, FALSE, 1) :
         /\ h.k = "return"
         /\ Len(h.v) >= 1
         /\ h.v[1].fix_id = last.fix_id
         /\ h.v[1].result = SUCCESS

----------------------------------------------------------------------------
(* Order of the lifecycle and shape of the records *)

LifecycleOrder == <<"check_platform_compatibility", "detect", "run", "verify">>

\* C14: one call of run_fix invokes the lifecycle methods in the order
\* check_platform_compatibility, detect, run, verify, none twice and none
\* before its predecessor; run only after detect() returned true, verify only
\* after run() returned a payload
C14_LifecycleOrder ==
  IsRunFix =>
    /\ Len(last.calls) <= Len(LifecycleOrder)
    /\ \A i \in 1..Len(last.calls) : last.calls[i].m = LifecycleOrder[i]
    /\ (Invoked("run") => Returns("detect", TRUE))
    /\ (Invoked("verify") => RunReturned)

\* a call goes through all four methods while another one ended at run()
\* raising before it
C14_Witness ==
  /\ IsRunFix
  /\ Len(last.calls) = 4
  /\ Returns("verify", TRUE)
  /\ Len(last.log0) = 1
  /\ last.log0[1].result = FAILURE
  /\ last.log0[1].after_state = Text(<<"None">>)

\* C16: in every record of the audit table, error_message holds a value
\* exactly when result is "failure" or "skipped"; a "success" record has none
C16_ErrorMessageIffNotSuccess ==
  \A i \in 1..Len(audit_log) :
    /\ audit_log[i].result \in {SUCCESS, FAILURE, SKIPPED}
    /\ (audit_log[i].error_message # NULL <=> audit_log[i].result \in {FAILURE, SKIPPED})

\* the table holds a success without a message and a skip with one
C16_Witness ==
  /\ Len(audit_log) = 2
  /\ audit_log[1].result = SUCCESS /\ audit_log[1].error_message = NULL
  /\ audit_log[2].result = SKIPPED /\ IsText(audit_log[2].error_message)

----------------------------------------------------------------------------
(* Reading the history *)

\* C15: get_history(n) returns a list of at most n records (none when n is 0
\* or negative) whose timestamps strictly decrease, also when records were
\* written at the same clock reading
C15_HistoryBoundedAndStrictlyOrdered ==
  last.op = "get_history" =>
    /\ last.ret.k = "return"
    /\ Len(last.ret.v) <= (IF last.limit < 0 THEN 0 ELSE last.limit)
    /\ \A i, j \in 1..Len(last.ret.v) :
         i < j => last.ret.v[i].timestamp > last.ret.v[j].timestamp

----------------------------------------------------------------------------
(* The audit table under all operations of the service *)

\* C17: every step of the service (run_fix, get_fix_info, get_history,
\* register, connect) leaves the rows of the audit table in place and
\* unchanged, new rows go after them, and the ids of the rows strictly
\* increase in the order of writing
C17_AppendOnly ==
  [][/\ Len(audit_log') >= Len(audit_log)
     /\ SubSeq(audit_log', 1, Len(audit_log)) = audit_log
     /\ \A i, j \in 1..Len(audit_log') :
          i < j => audit_log'[i].id < audit_log'[j].id]_vars

\* a second row has been written after the first, and the store was then
\* connected again
C17_Witness ==
  /\ Len(audit_log) = 2
  /\ audit_log[1].id < audit_log[2].id
  /\ last.op = "connect"
  /\ conn = "open"

IsGetFixInfo == last.op = "get_fix_info"

\* C18: a call of get_fix_info leaves the audit table as it was, for every id
\* and whatever detect(), preview() and the platform check do
C18_GetFixInfoWritesNothing ==
  IsGetFixInfo => audit_log = last.log0

\* detect() raises in get_fix_info while the store is connected and holds a
\* row
C18_Witness ==
  /\ IsGetFixInfo
  /\ Raises("detect")
  /\ last.st.c = "open"
  /\ Len(audit_log) = 1

\* C19: get_fix_info returns None for an id that is not registered; when
\* detect() raises it returns the metadata of the fix with is_needed=false,
\* and no exception reaches the caller
C19_DetectErrorSwallowed ==
  IsGetFixInfo =>
    /\ (~Registered => last.ret = PyNone)
    /\ (Registered /\ Raises("detect") =>
          /\ "is_needed" \in DOMAIN last.ret
          /\ last.ret.is_needed = FALSE
          /\ last.ret.id = last.fix_id)

----------------------------------------------------------------------------
(* The registry *)

IsRegister == last.op = "register"
\* the class just registered has an id that was in the registry
Reregistered == IsRegister /\ HasFix(last.fixes0, last.fix_cls.id)

\* C20: registering a class whose id is already in the registry puts the new
\* instance in the place of the old one: get_fix(id) is the new instance, the
\* registry holds as many fixes as before, and every other id has the
\* instance it had
C20_ReregisterOverwrites ==
  Reregistered =>
    /\ get_fix(fixes, last.fix_cls.id) = NewFix(last.fix_cls)
    /\ Len(get_all_fixes(fixes)) = Len(get_all_fixes(last.fixes0))
    /\ \A id \in {last.fixes0[i].id : i \in 1..Len(last.fixes0)} \ {last.fix_cls.id} :
         get_fix(fixes, id) = get_fix(last.fixes0, id)

\* a reloaded class has taken the id of another class while two other fixes
\* are registered
C20_Witness ==
  /\ Reregistered
  /\ get_fix(last.fixes0, last.fix_cls.id).cls # last.fix_cls.cls
  /\ get_fix(fixes, last.fix_cls.id).cls = last.fix_cls.cls
  /\ Len(fixes) = 3

\* the ids of a registry in the order get_all_fixes lists them
IdsOf(reg) == [i \in 1..Len(reg) |-> reg[i].id]

\* C21: get_all_fixes lists the fixes in the order in which their ids were
\* first registered since the last clear: registering a new id puts it last,
\* registering an id that is present leaves the order as it is, clear leaves
\* nothing, and no id is listed twice
C21_RegistrationOrder ==
  /\ \A i, j \in 1..Len(get_all_fixes(fixes)) :
       i # j => get_all_fixes(fixes)[i].id # get_all_fixes(fixes)[j].id
  /\ (last.op = "clear" => get_all_fixes(fixes) = <<>>)
  /\ (IsRegister =>
        IdsOf(get_all_fixes(fixes)) =
          IF HasFix(last.fixes0, last.fix_cls.id) THEN IdsOf(last.fixes0)
          ELSE Append(IdsOf(last.fixes0), last.fix_cls.id))

\* the id registered first is registered again, by another class, while two
\* later ids are present: it is still listed first
C21_Witness ==
  /\ Reregistered
  /\ Len(fixes) = 3
  /\ last.fixes0[1].id = last.fix_cls.id
  /\ last.fixes0[1].cls # last.fix_cls.cls
  /\ fixes[1] = NewFix(last.fix_cls)

----------------------------------------------------------------------------
(* The implementations *)

\* run() returned although a command of the remediation failed
RunFailedQuietly ==
  /\ RunReturned
  /\ "failed" \in DOMAIN Outcome("run")
  /\ Outcome("run").failed

\* C25: when run_fix runs a registered fix, a remediation whose command
\* exited non-zero makes run() raise, the error run() raises carries a text,
\* and no record with result "success" is written for a remediation whose
\* commands failed
C25_FailedRunRaises ==
  IsRunFix /\ Registered /\ Invoked("run") =>
    /\ ~RunFailedQuietly
    /\ (Raises("run") => Outcome("run").cause # NoText)
    /\ (RunFailedQuietly => AllNewRows(LAMBDA row : row.result # SUCCESS))

\* C26: detect() is invoked, by run_fix or by get_fix_info, only on a fix
\* whose check_platform_compatibility() is true on the host
C26_DetectOnlyOnSupportedPlatform ==
  (IsRunFix \/ IsGetFixInfo) /\ Registered /\ Invoked("detect") =>
    check_platform_compatibility(last.fix, last.st.system) = "true"

\* C29: when the platform check of a registered fix passes, run() does not
\* end in the error of a platform it has no implementation for
C29_RunImplementedWhereSupported ==
  IsRunFix /\ Registered /\ PlatformCheck("true") /\ Raises("run") =>
    Outcome("run").cause \notin {FlushNotImplemented, NoText}

----------------------------------------------------------------------------
(* Result and record *)

\* C30: the dict run_fix returns for a registered fix agrees with every row
\* the call wrote: success=true without skipped goes with result "success"
\* and with no other, success=true with skipped=true goes with a "skipped"
\* row after detect() returned false and with no other, and a "failure" row
\* goes with success=false
C30_ResultMatchesRecord ==
  IsRunFix /\ Registered /\ Returned =>
    AllNewRows(LAMBDA row :
      /\ (last.ret.success = TRUE /\ ~Skipped(last.ret) <=> row.result = SUCCESS)
      /\ (last.ret.success = TRUE /\ Skipped(last.ret) <=>
            row.result = SKIPPED /\ Returns("detect", FALSE))
      /\ (row.result = FAILURE => last.ret.success = FALSE))

\* a run whose verify() returned false is recorded as a failure and reported
\* with success=false, after a skip was recorded
C30_Witness ==
  /\ IsRunFix /\ Returned
  /\ Returns("verify", FALSE)
  /\ last.ret.success = FALSE
  /\ Len(NewRows) = 1
  /\ NewRows[1].result = FAILURE
  /\ Len(last.log0) = 1
  /\ last.log0[1].result = SKIPPED

----------------------------------------------------------------------------
(* Time of the record *)

----------------------------------------------------------------------------
(* Requests that terminate a process *)

\* the task has made its engine call
Acted(r) == loop.tasks[r].pc \in {"inserted", "done"}

\* C27: for every target pid of terminate_process, when detect() returns
\* true, run() does not fail with "No target PID specified."
C27_DetectedTargetRuns ==
  IsRunFix /\ last.fix_id = TargetFix /\ Returns("detect", TRUE) =>
    ~(Raises("run") /\ Outcome("run").cause = NoTargetError)

\* C22: of the requests in flight that carry a pid, each has its detect, run
\* and verify act on the pid it set itself, whatever the other request set
C22_EachRequestActsOnItsPid ==
  \A r \in Requests :
    Acted(r) /\ loop.tasks[r].pid # PyNone => loop.tasks[r].acted_on = loop.tasks[r].pid

\* two requests with different pids are in flight, one has made its engine
\* call and the handler of the other has yet to start
C22_Witness ==
  \E r, q \in Requests :
    /\ Acted(r) /\ loop.tasks[r].pc = "inserted"
    /\ loop.tasks[q].pc = "new"
    /\ loop.tasks[r].pid # PyNone /\ loop.tasks[q].pid # PyNone
    /\ loop.tasks[r].pid # loop.tasks[q].pid
    /\ Invoked("run")

\* C23: the writes of concurrent run_fix calls on the shared connection are
\* serialized: the pending rows of the connection belong to one call at most,
\* a commit commits the rows of the call that makes it and no others, and the
\* rows of every call that returned are in the table as the call wrote them
C23_WritesSerialized ==
  /\ Cardinality({loop.txn[i].owner : i \in 1..Len(loop.txn)}) <= 1
  /\ last.op = "commit" => last.owners \subseteq {last.r}
  /\ \A r \in Requests :
       loop.tasks[r].pc = "done" =>
         \A i \in 1..Len(loop.tasks[r].rows) :
           LET row == loop.tasks[r].rows[i]
           IN  row.id <= Len(audit_log) /\ audit_log[row.id] = row

\* both requests have returned, each having written its own row
C23_Witness ==
  \E r, q \in Requests :
    /\ r # q
    /\ loop.tasks[r].pc = "done" /\ loop.tasks[q].pc = "done"
    /\ Len(loop.tasks[r].rows) = 1 /\ Len(loop.tasks[q].rows) = 1
    /\ loop.tasks[r].rows # loop.tasks[q].rows
    /\ Len(audit_log) = 2

\* C28: the target pid of terminate_process is the pid of the most recent
\* set_target call, whatever run_fix and get_fix_info calls came after it, and
\* a request without pid acts on the target its handler met
C28_TargetOnlyChangedBySetTarget ==
  /\ get_fix(fixes, TargetFix).target_pid = loop.last_set
  /\ (IsRunFix \/ IsGetFixInfo) => last.fix.target_pid = loop.last_set
  /\ \A r \in Requests :
       Acted(r) /\ loop.tasks[r].pid = PyNone =>
         loop.tasks[r].acted_on = loop.tasks[r].found

\* a request without pid ran the fix against the pid an earlier request set
C28_Witness ==
  \E r \in Requests :
    /\ loop.tasks[r].pc = "done"
    /\ loop.tasks[r].pid = PyNone
    /\ loop.tasks[r].acted_on # PyNone
    /\ Truthy(loop.tasks[r].acted_on)
    /\ loop.tasks[r].acted_on = loop.last_set

====
